---- MODULE Spec2Model ----
(***************************************************************************)
(* A model of recommend.py: the ImprovedRecommendationSystem pipeline      *)
(* (profile, feature matrix, content scorer, diversity filter, popularity  *)
(* fallback, blend), its entry points, and the module-level instance whose *)
(* vectorizer and scaler are shared by the requests a server runs at once. *)
(* A request is a sequence of steps: the two repository fetches, the fit   *)
(* and the transform of the vectorizer, the fit and the transform of the   *)
(* scaler; the steps of two requests interleave.                           *)
(*                                                                         *)
(* Numbers.                                                                *)
(*   - a popularity score is the IEEE double the code computes, held as    *)
(*     <<f, o>>: the double f/5 + o/(5 * 2^55);                            *)
(*   - a standardised value z is <<sign, p, q>> with z*z = p/q reduced;    *)
(*   - a cosine is held to SimScale (6 decimals, cut towards 0), a         *)
(*     similarity score is a pair <<numerator, denominator>>.              *)
(* Text.  A book's document is title, author, description and genres; the  *)
(* catalogs of the model have titles, descriptions and genres that share   *)
(* no token between books, so the only token a document can share with     *)
(* another is its author (a document is the set holding its author).  A    *)
(* row of the tf-idf matrix then has at most one non-zero entry, which L2  *)
(* normalisation makes exactly 1.  likes and avg_rating are integers.      *)
(***************************************************************************)
EXTENDS Integers, Sequences, FiniteSets, TLC

VARIABLES
    books,          \* the books table, as fetch_books_enhanced returns it
    likes_data,     \* the user's rows of the likes table
    reviews_data,   \* the user's rows of the reviews table
    repo_fail,      \* which repository fetch fails: "none", "books", "activity"
    tfidf,          \* rec_system.tfidf: the fitted state of the shared vectorizer
    scaler,         \* rec_system.scaler: the fitted state of the shared scaler
    pc,             \* per request: the step it is at ("idle" before, "done" after)
    req,            \* per request: entry point, current_book_id, count
    books_df,       \* per request: its DataFrame
    user_profile,   \* per request: what calculate_user_profile returned
    t_X,            \* per request: the term counts of its documents
    t_tfidf,        \* per request: its tf-idf matrix
    scoring,        \* per request: what the content scorer computed
    content_recs,   \* per request: what get_content_based_recommendations returned
    diversified,    \* per request: what diversify_recommendations returned
    result,         \* per request: what get_recommendations returned
    div_pc,         \* diversity filter alone: "idle" or "done"
    div_in,         \* diversity filter alone: the ranked input list
    div_out         \* diversity filter alone: the returned list

vars == <<books, likes_data, reviews_data, repo_fail, tfidf, scaler, pc, req,
          books_df, user_profile, t_X, t_tfidf, scoring, content_recs,
          diversified, result, div_pc, div_in, div_out>>

(***************************************************************************)
(* Bounds of the model and constants of the program                        *)
(***************************************************************************)
MaxBooks == 4          \* longest catalog
MaxCount == 3          \* largest count of a direct get_recommendations call
MaxLiked == 1          \* most liked books of the user
MaxRecs == 7           \* longest list given to the diversity filter alone

DefaultCount == 5      \* n_recommendations=5
MinDf == 2             \* min_df=2
MaxDfTenths == 8       \* max_df=0.8
PenaltyTenths == 3     \* 0.3 * disliked_sim_scores
DiversityTenths == 3   \* diversity_factor=0.3
LikesWeightFifths == 2         \* books_df['likes'] * 0.4
RatedLikesWeightFifths == 3    \* books_df['avg_rating'] * books_df['likes'] * 0.6

\* The requests the server runs at once.
Requests == {1, 2}

(***************************************************************************)
(* Arithmetic and sequence helpers                                         *)
(***************************************************************************)
Min(a, b) == IF a <= b THEN a ELSE b

Max(a, b) == IF a >= b THEN a ELSE b

Abs(a) == IF a < 0 THEN -a ELSE a

RECURSIVE GCD(_, _)
GCD(a, b) == IF b = 0 THEN a ELSE GCD(b, a % b)

RECURSIVE Pow2(_)
Pow2(k) == IF k = 0 THEN 1 ELSE 2 * Pow2(k - 1)

\* The largest r in lo..hi with r*r <= a, where lo*lo <= a.
RECURSIVE SqrtSearch(_, _, _)
SqrtSearch(a, lo, hi) ==
    IF lo = hi THEN lo
    ELSE LET mid == (lo + hi + 1) \div 2
         IN IF mid * mid <= a THEN SqrtSearch(a, mid, hi) ELSE SqrtSearch(a, lo, mid - 1)

\* The integer square root: the largest r with r*r <= a.
ISqrt(a) == SqrtSearch(a, 0, Min(a, 46340))

\* recommendations[:n]: the first n items, or for a negative n all but the
\* last -n.
Take(s, n) ==
    IF n >= 0 THEN SubSeq(s, 1, Min(n, Len(s))) ELSE SubSeq(s, 1, Max(0, Len(s) + n))

RECURSIVE SumSeq(_)
SumSeq(s) == IF s = <<>> THEN 0 ELSE Head(s) + SumSeq(Tail(s))

Range(s) == {s[i] : i \in 1..Len(s)}

\* A sequence given as a function of its positions, as the tuple of its values.
AsSeq(f) == f \o <<>>

\* An absent score: the key is not in the record.
NoScore == <<>>

\* The order of two sort keys <<major, minor>>: by major, then by minor.
KeyGeq(x, y) == x[1] > y[1] \/ (x[1] = y[1] /\ x[2] >= y[2])

\* Python's sorted(pairs, key=lambda x: x[1], reverse=True), and the mergesort
\* of nlargest with keep='first': a stable sort, so pairs whose keys are equal
\* keep the order they had.  A pair is <<item, key>>.
RECURSIVE InsertDesc(_, _)
InsertDesc(sorted, x) ==
    IF sorted = <<>> THEN <<x>>
    ELSE IF KeyGeq(Head(sorted)[2], x[2])
         THEN <<Head(sorted)>> \o InsertDesc(Tail(sorted), x)
         ELSE <<x>> \o sorted

RECURSIVE SortedDesc(_)
SortedDesc(pairs) ==
    IF pairs = <<>> THEN <<>>
    ELSE InsertDesc(SortedDesc(SubSeq(pairs, 1, Len(pairs) - 1)),
                    pairs[Len(pairs)])

(***************************************************************************)
(* Natural numbers of any size, as their digits to the base BigBase, the   *)
(* lowest first and the highest not 0 (<<>> is 0)                          *)
(***************************************************************************)
BigBase == 10000

RECURSIVE BigOf(_)
BigOf(n) == IF n = 0 THEN <<>> ELSE <<n % BigBase>> \o BigOf(n \div BigBase)

RECURSIVE BigAddCarry(_, _, _)
BigAddCarry(a, b, carry) ==
    IF a = <<>> /\ b = <<>> THEN (IF carry = 0 THEN <<>> ELSE <<carry>>)
    ELSE LET x == (IF a = <<>> THEN 0 ELSE Head(a)) + (IF b = <<>> THEN 0 ELSE Head(b)) + carry
         IN <<x % BigBase>> \o BigAddCarry(IF a = <<>> THEN <<>> ELSE Tail(a),
                                          IF b = <<>> THEN <<>> ELSE Tail(b),
                                          x \div BigBase)

BigAdd(a, b) == BigAddCarry(a, b, 0)

\* a times the digit d > 0, plus carry.
RECURSIVE BigTimesDigit(_, _, _)
BigTimesDigit(a, d, carry) ==
    IF a = <<>> THEN (IF carry = 0 THEN <<>> ELSE <<carry>>)
    ELSE LET x == Head(a) * d + carry
         IN <<x % BigBase>> \o BigTimesDigit(Tail(a), d, x \div BigBase)

RECURSIVE BigMul(_, _)
BigMul(a, b) ==
    IF a = <<>> \/ b = <<>> THEN <<>>
    ELSE LET high == BigMul(a, Tail(b))
             low == IF Head(b) = 0 THEN <<>> ELSE BigTimesDigit(a, Head(b), 0)
         IN BigAdd(low, IF high = <<>> THEN <<>> ELSE <<0>> \o high)

BigSquare(a) == BigMul(a, a)

RECURSIVE BigLeq(_, _)
BigLeq(a, b) ==
    IF Len(a) # Len(b) THEN Len(a) < Len(b)
    ELSE IF a = <<>> THEN TRUE
    ELSE IF a[Len(a)] # b[Len(b)] THEN a[Len(a)] < b[Len(b)]
    ELSE BigLeq(SubSeq(a, 1, Len(a) - 1), SubSeq(b, 1, Len(b) - 1))

\* The largest r in lo..hi with r*r*Q <= P, where lo*lo*Q <= P.
RECURSIVE BigRootSearch(_, _, _, _)
BigRootSearch(P, Q, lo, hi) ==
    IF lo = hi THEN lo
    ELSE LET mid == (lo + hi + 1) \div 2
         IN IF BigLeq(BigMul(BigSquare(BigOf(mid)), Q), P)
            THEN BigRootSearch(P, Q, mid, hi)
            ELSE BigRootSearch(P, Q, lo, mid - 1)

(***************************************************************************)
(* Values                                                                  *)
(***************************************************************************)
\* The tokens an author field can hold, in the vectorizer's (sorted) order.
AuthorOrder == <<"a", "b">>

\* current_book_id: None, an int (argparse type=int, or a direct call), a str
\* of digits or a str that int() rejects (request.args.get).
NoneId == [kind |-> "none", v |-> 0]

IntId(k) == [kind |-> "int", v |-> k]

StrId(k) == [kind |-> "str", v |-> k]

NotAnInt == [kind |-> "text", v |-> 0]

\* Python's truth value of current_book_id: None and the int 0 are false, a
\* non-empty str (also "0") is true.
Truthy(x) ==
    CASE x.kind = "none" -> FALSE
      [] x.kind = "int" -> x.v # 0
      [] x.kind = "str" -> TRUE
      [] x.kind = "text" -> TRUE

\* int(current_book_id) raises ValueError.
IntRaises(x) == x.kind = "text"

\* int(current_book_id)
IntOf(x) == x.v

\* The id of the book at position p (1-based) of the books table: every id
\* differs from the row's index label p - 1, and 0 is an id.
IdAt(p) == IF p % 2 = 1 THEN p ELSE p - 2

\* pd.DataFrame(books_data, columns=[...]): row p gets the index label p - 1.
DataFrame(books_data) ==
    AsSeq([p \in 1..Len(books_data) |->
        [label |-> p - 1, id |-> books_data[p].id, author |-> books_data[p].author,
         likes |-> books_data[p].likes, avg_rating |-> books_data[p].avg_rating]])

\* books_df[books_df['id'] != int(current_book_id)]: the rows kept keep their
\* index labels.
WithoutId(df, k) == SelectSeq(df, LAMBDA row : row.id # k)

\* row.to_dict(), with the score keys a recommendation may carry.
ToDict(row, sim, pop) ==
    [id |-> row.id, author |-> row.author, likes |-> row.likes,
     avg_rating |-> row.avg_rating, similarity_score |-> sim,
     popularity_score |-> pop]

(***************************************************************************)
(* calculate_user_profile                                                  *)
(***************************************************************************)
NoProfile ==
    [present |-> FALSE, liked_books |-> <<>>, disliked_books |-> <<>>,
     rated_books |-> <<>>]

\* user_activity is the tuple <<likes_data, reviews_data, profile_data>> of
\* fetch_user_comprehensive_activity; `not user_activity` is Len = 0.
calculate_user_profile(user_activity) ==
    IF Len(user_activity) = 0 THEN NoProfile
    ELSE [present |-> TRUE,
          liked_books |-> SelectSeq(user_activity[1], LAMBDA r : r.action = "like"),
          disliked_books |-> SelectSeq(user_activity[1], LAMBDA r : r.action # "like"),
          rated_books |-> user_activity[2]]

(***************************************************************************)
(* create_enhanced_features: TfidfVectorizer and StandardScaler            *)
(***************************************************************************)
\* The number of documents holding term t.
DocFreq(df, t) == Cardinality({i \in 1..Len(df) : df[i].author = t})

\* CountVectorizer.fit_transform raises ValueError when no document holds a
\* token, when max_df * n_doc < min_df, and when pruning leaves no term.
Vocabulary(df) ==
    SelectSeq(AuthorOrder,
              LAMBDA t : DocFreq(df, t) >= MinDf
                         /\ 10 * DocFreq(df, t) <= MaxDfTenths * Len(df))

TfidfRaises(df) ==
    \/ Len(df) = 0
    \/ MaxDfTenths * Len(df) < 10 * MinDf
    \/ Vocabulary(df) = <<>>

\* The term counts of each document over the vocabulary.
CountMatrix(df) ==
    LET V == Vocabulary(df)
    IN AsSeq([i \in 1..Len(df) |->
                AsSeq([k \in 1..Len(V) |-> IF df[i].author = V[k] THEN 1 ELSE 0])])

\* TfidfTransformer.fit: idf = ln((1 + n) / (1 + df)) + 1 per term, held as
\* the reduced fraction (1 + n) / (1 + df).
IdfOf(df) ==
    LET V == Vocabulary(df)
    IN AsSeq([k \in 1..Len(V) |->
                LET a == 1 + Len(df)
                    b == 1 + DocFreq(df, V[k])
                IN <<a \div GCD(a, b), b \div GCD(a, b)>>])

\* TfidfTransformer.transform with the idf of a fit: ValueError when the matrix
\* has another number of columns than the fit; else the counts times the idf,
\* L2-normalised by row.  A row has at most one non-zero entry and an idf is
\* positive, so the normalised entry is 1.
TfidfTransform(X, idf) ==
    IF \E i \in 1..Len(X) : Len(X[i]) # Len(idf)
    THEN [error |-> TRUE, matrix |-> <<>>]
    ELSE [error |-> FALSE,
          matrix |-> AsSeq([i \in 1..Len(X) |->
                        AsSeq([k \in 1..Len(idf) |-> IF X[i][k] > 0 THEN 1 ELSE 0])])]

\* df[['likes', 'avg_rating']]
NumericalFeatures(df) == AsSeq([i \in 1..Len(df) |-> <<df[i].likes, df[i].avg_rating>>])

\* StandardScaler.fit: per column, what mean_ and var_ are computed from: the
\* number of rows, the sum and the sum of squares.
ColumnStats(X, c) ==
    [n |-> Len(X),
     s |-> SumSeq([i \in 1..Len(X) |-> X[i][c]]),
     q |-> SumSeq([i \in 1..Len(X) |-> X[i][c] * X[i][c]])]

ScalerFit(X) == <<ColumnStats(X, 1), ColumnStats(X, 2)>>

\* (x - mean_) / scale_, where scale_ is sqrt(var_), or 1 when var_ is 0.
\* With mean = s/n and var = (n*q - s*s)/(n*n): z = (x*n - s) / sqrt(n*q - s*s),
\* or (x*n - s)/n.  The value is <<sign, p, q>> with z*z = p/q reduced.
Standardise(x, st) ==
    LET d == x * st.n - st.s
        v == st.n * st.q - st.s * st.s
        den == IF v = 0 THEN st.n * st.n ELSE v
        g == GCD(d * d, den)
    IN IF d = 0 THEN <<0, 0, 1>>
       ELSE <<IF d < 0 THEN -1 ELSE 1, (d * d) \div g, den \div g>>

ScalerTransform(X, stats) ==
    AsSeq([i \in 1..Len(X) |->
              <<Standardise(X[i][1], stats[1]), Standardise(X[i][2], stats[2])>>])

\* np.hstack([tfidf_matrix.toarray(), numerical_scaled])
HStack(T, S) == AsSeq([i \in 1..Len(T) |-> [tfidf |-> T[i], num |-> S[i]]])

\* One request alone: both fits and both transforms run on its own DataFrame.
create_enhanced_features(df) ==
    IF TfidfRaises(df) THEN [error |-> TRUE, matrix |-> <<>>]
    ELSE LET T == TfidfTransform(CountMatrix(df), IdfOf(df))
             numerical_features == NumericalFeatures(df)
         IN [error |-> FALSE,
             matrix |-> HStack(T.matrix,
                               ScalerTransform(numerical_features,
                                               ScalerFit(numerical_features)))]

(***************************************************************************)
(* cosine_similarity                                                       *)
(***************************************************************************)
\* A cosine is held as the integer part of its SimScale-fold.
SimScale == 1000000

\* A row of combined_features, every entry as <<sign, p, q>>.
RowVector(row) ==
    AsSeq([k \in 1..Len(row.tfidf) |->
              IF row.tfidf[k] = 0 THEN <<0, 0, 1>>
              ELSE <<1, row.tfidf[k] * row.tfidf[k], 1>>])
    \o row.num

\* The product of two entries of one column, as the fraction <<n, d>>, d > 0.
\* The scaled entries of a column are integers over one square root (that of
\* the variance the scaler holds), so their product is a fraction.
Product(x, y) ==
    IF x[1] = 0 \/ y[1] = 0 THEN <<0, 1>>
    ELSE LET n == x[2] * y[2]
             d == x[3] * y[3]
             g == GCD(n, d)
         IN <<x[1] * y[1] * ISqrt(n \div g), ISqrt(d \div g)>>

\* The sum of two fractions, reduced.
PlusFraction(x, y) ==
    LET n == x[1] * y[2] + y[1] * x[2]
        d == x[2] * y[2]
        g == GCD(Abs(n), d)
    IN <<n \div g, d \div g>>

\* The dot product of two rows, as a fraction.
RECURSIVE Dot(_, _)
Dot(u, w) ==
    IF u = <<>> THEN <<0, 1>>
    ELSE PlusFraction(Product(Head(u), Head(w)), Dot(Tail(u), Tail(w)))

\* The root of the fraction P / Q > 0, times SimScale, cut to an integer.
RootOfRatio(P, Q) ==
    IF P = Q THEN SimScale
    ELSE BigRootSearch(BigMul(P, BigSquare(BigOf(SimScale))), Q, 0, SimScale)

\* The cosine from the dot products uw = a/b, uu = c/d and ww = e/f: its
\* square is (a*a*d*f) / (b*b*c*e).
CosineOf(uw, uu, ww) ==
    IF uw[1] = 0 \/ uu[1] = 0 \/ ww[1] = 0 THEN 0
    ELSE (IF uw[1] < 0 THEN -1 ELSE 1)
         * RootOfRatio(BigMul(BigSquare(BigOf(Abs(uw[1]))),
                              BigMul(BigOf(uu[2]), BigOf(ww[2]))),
                       BigMul(BigSquare(BigOf(uw[2])),
                              BigMul(BigOf(uu[1]), BigOf(ww[1]))))

\* The cosine of two rows, times SimScale, cut towards 0: 0 when a row is
\* zero (sklearn normalises a zero row to itself).
Cosine(u, w) == CosineOf(Dot(u, w), Dot(u, u), Dot(w, w))

cosine_similarity(features) ==
    LET rows == AsSeq([i \in 1..Len(features) |-> RowVector(features[i])])
    IN AsSeq([i \in 1..Len(rows) |->
                AsSeq([j \in 1..Len(rows) |-> Cosine(rows[i], rows[j])])])

(***************************************************************************)
(* get_content_based_recommendations                                       *)
(***************************************************************************)
\* called: the scorer was called; scored: it computed final_scores.
NoScoring ==
    [called |-> FALSE, scored |-> FALSE, liked_indices |-> <<>>,
     disliked_indices |-> <<>>, final_scores |-> <<>>, den |-> 1]

\* For each book of the list that books_df holds, matching_books.index[0]: the
\* index LABEL of its row.
IndicesOf(book_list, df) ==
    LET found == SelectSeq(book_list, LAMBDA b : \E i \in 1..Len(df) : df[i].id = b.id)
    IN AsSeq([k \in 1..Len(found) |->
                df[CHOOSE i \in 1..Len(df) : df[i].id = found[k].id].label])

\* np.mean(cosine_sim[indices], axis=0) times len(indices): numpy takes the
\* rows at the POSITIONS given (0-based), column j of their sum.
SumRows(cosine_sim, indices, j) ==
    SumSeq([k \in 1..Len(indices) |-> cosine_sim[indices[k] + 1][j]])

\* final_scores, over a common denominator: the liked mean, minus 0.3 times
\* the disliked mean when there are disliked indices.
FinalScores(cosine_sim, liked_indices, disliked_indices) ==
    LET nl == Len(liked_indices)
        nd == Len(disliked_indices)
    IN IF nd > 0
       THEN [den |-> 10 * nl * nd * SimScale,
             num |-> AsSeq([j \in 1..Len(cosine_sim) |->
                        10 * nd * SumRows(cosine_sim, liked_indices, j)
                        - PenaltyTenths * nl * SumRows(cosine_sim, disliked_indices, j)])]
       ELSE [den |-> nl * SimScale,
             num |-> AsSeq([j \in 1..Len(cosine_sim) |->
                        SumRows(cosine_sim, liked_indices, j)])]

\* interacted_ids
InteractedIds(profile) ==
    {b.id : b \in Range(profile.liked_books) \cup Range(profile.disliked_books)}

\* The sort, the filter on interacted_ids and the loop, given final_scores.
\* The loop appends a book and then breaks when it holds n_recommendations
\* books or more: it returns one book for an n_recommendations of 0 or less.
RankedRecs(profile, df, found, final, n_recommendations) ==
    LET \* list(enumerate(final_scores)), sorted by score, descending, without
        \* the books of interacted_ids
        kept == SelectSeq(SortedDesc(AsSeq([j \in 1..Len(final.num) |->
                                              <<j, <<final.num[j], 0>> >>])),
                          LAMBDA x : df[x[1]].id \notin InteractedIds(profile))
    IN [error |-> FALSE,
        recs |-> AsSeq([k \in 1..Min(Max(n_recommendations, 1), Len(kept)) |->
                    ToDict(df[kept[k][1]], <<kept[k][2][1], final.den>>, NoScore)]),
        scoring |-> [found EXCEPT !.scored = TRUE,
                                  !.final_scores = final.num,
                                  !.den = final.den]]

\* The scorer from the indices found on: error is the IndexError numpy raises
\* for an index that is no position of cosine_sim.
ScoreIndices(profile, df, combined_features, found, n_recommendations) ==
    IF found.liked_indices = <<>>
    THEN [error |-> FALSE, recs |-> <<>>, scoring |-> found]
    ELSE IF \E k \in Range(found.liked_indices) \cup Range(found.disliked_indices) :
                k >= Len(combined_features)
    THEN [error |-> TRUE, recs |-> <<>>, scoring |-> found]
    ELSE RankedRecs(profile, df, found,
                    FinalScores(cosine_similarity(combined_features),
                                found.liked_indices, found.disliked_indices),
                    n_recommendations)

\* Returns [error, recs, scoring].
get_content_based_recommendations(profile, df, combined_features, n_recommendations) ==
    IF ~profile.present \/ profile.liked_books = <<>>
    THEN [error |-> FALSE, recs |-> <<>>, scoring |-> [NoScoring EXCEPT !.called = TRUE]]
    ELSE ScoreIndices(profile, df, combined_features,
                      [NoScoring EXCEPT
                          !.called = TRUE,
                          !.liked_indices = IndicesOf(profile.liked_books, df),
                          !.disliked_indices = IndicesOf(profile.disliked_books, df)],
                      n_recommendations)

(***************************************************************************)
(* get_popularity_based_recommendations                                    *)
(***************************************************************************)
\* A double is held as <<f, o>>: the number f/5 + o/(5 * 2^55), f >= 0.
\* The doubles 0.4 and 0.6: 0.4 + 2^-53/5 and 0.6 - 2^-53/5.
Double04 == <<LikesWeightFifths, 4>>

Double06 == <<RatedLikesWeightFifths, -4>>

\* 2^e <= x, for a number x = <<f, o>> above 0.
AtLeastPow2(x, e) ==
    IF e >= 0
    THEN x[1] > 5 * Pow2(e) \/ (x[1] = 5 * Pow2(e) /\ x[2] >= 0)
    ELSE x[1] * Pow2(-e) > 5 \/ (x[1] * Pow2(-e) = 5 /\ x[2] >= 0)

\* The exponent of x: 2^e <= x < 2^(e+1).
Binade(x) == CHOOSE e \in -2..20 : AtLeastPow2(x, e) /\ ~AtLeastPow2(x, e + 1)

\* x moved to a multiple of M: down by rem, or up, by the nearer; by the
\* even one (rem2 < M) when rem is the half of M.
RoundTo(x, M, rem, rem2) ==
    IF 2 * rem < M \/ (2 * rem = M /\ rem2 < M)
    THEN <<x[1], x[2] - rem>>
    ELSE <<x[1], x[2] - rem + M>>

\* The double of exponent e nearest to x.  In units of 1/(5 * 2^55) the
\* doubles of exponent e are the multiples of M = 5 * 2^(e+3), and f * 2^55
\* is 2^(e+3) * ((f * 2^(52-e)) mod 5) modulo M.
RoundIn(x, e) ==
    RoundTo(x, 5 * Pow2(e + 3),
            (Pow2(e + 3) * ((x[1] * (Pow2((52 - e) % 4) % 5)) % 5) + x[2])
                % (5 * Pow2(e + 3)),
            (Pow2(e + 3) * ((x[1] * (Pow2(((51 - e) % 4) + 1) % 10)) % 10) + x[2])
                % (10 * Pow2(e + 3)))

\* The double nearest to the number x (ties to the even mantissa).
RoundDouble(x) == IF x[1] = 0 THEN <<0, 0>> ELSE RoundIn(x, Binade(x))

\* k * w in double arithmetic, k an integer (exact as a double), w a double.
TimesDouble(k, w) == RoundDouble(<<k * w[1], k * w[2]>>)

\* x + y in double arithmetic.
PlusDouble(x, y) == RoundDouble(<<x[1] + y[1], x[2] + y[2]>>)

\* books_df['popularity_score']: likes * 0.4 + (avg_rating * likes) * 0.6.
PopularityScore(row) ==
    PlusDouble(TimesDouble(row.likes, Double04),
               TimesDouble(row.avg_rating * row.likes, Double06))

\* books_df.nlargest(n, 'popularity_score').to_dict('records'): the n rows of
\* the highest score, highest first, rows of equal score in the frame's order.
get_popularity_based_recommendations(df, n_recommendations) ==
    LET ranked == SortedDesc(AsSeq([i \in 1..Len(df) |-> <<i, PopularityScore(df[i])>>]))
    IN AsSeq([k \in 1..Min(Max(n_recommendations, 0), Len(df)) |->
                ToDict(df[ranked[k][1]], NoScore, ranked[k][2])])

(***************************************************************************)
(* diversify_recommendations                                               *)
(***************************************************************************)
\* book.get('author', 'Unknown')
AuthorOf(book) == IF "author" \in DOMAIN book THEN book.author ELSE "Unknown"

\* The cap with the product rounded up.
MaxPerAuthorRoundedUp(len) == Max(1, (len * DiversityTenths + 9) \div 10)

\* max(1, int(len(recommendations) * diversity_factor))
MaxPerAuthor(len) == Max(1, (len * DiversityTenths) \div 10)

\* The loop: a book is kept when fewer than max_per_author kept books have
\* its author.
RECURSIVE DiversifyLoop(_, _, _)
DiversifyLoop(rest, kept, max_per_author) ==
    IF rest = <<>> THEN kept
    ELSE LET book == Head(rest)
             current_count ==
                 Cardinality({i \in 1..Len(kept) : AuthorOf(kept[i]) = AuthorOf(book)})
         IN DiversifyLoop(Tail(rest),
                          IF current_count < max_per_author
                          THEN Append(kept, book) ELSE kept,
                          max_per_author)

diversify_recommendations(recommendations) ==
    IF Len(recommendations) <= 3 THEN recommendations
    ELSE DiversifyLoop(recommendations, <<>>, MaxPerAuthor(Len(recommendations)))

(***************************************************************************)
(* get_recommendations, run alone                                          *)
(***************************************************************************)
\* What a call leaves: the values of its stages and what it returns.
Outcome(df, profile, sc, content, div, recs, err) ==
    [books_df |-> df, user_profile |-> profile, scoring |-> sc,
     content_recs |-> content, diversified |-> div,
     result |-> [recommendations |-> recs, error |-> err]]

\* An exception caught at the end of the try block: an empty list, an error.
Raised(df, profile, sc) == Outcome(df, profile, sc, <<>>, <<>>, <<>>, TRUE)

\* The popular books appended to the diversified list: those of the
\* n - len(recommendations) most popular whose id the list does not hold.
TopUp(recommendations, df, n_recommendations) ==
    LET popular_recs ==
            get_popularity_based_recommendations(df, n_recommendations - Len(recommendations))
        existing_ids == {rec.id : rec \in Range(recommendations)}
    IN recommendations \o SelectSeq(popular_recs, LAMBDA pop_rec : pop_rec.id \notin existing_ids)

\* user_profile and (user_profile['liked_books'] or user_profile['rated_books'])
Active(profile) ==
    profile.present /\ (profile.liked_books # <<>> \/ profile.rated_books # <<>>)

\* The top-up when the diversified list is short, and the cut to n.
Blend(profile, df, content, div, n_recommendations) ==
    Outcome(df, profile, content.scoring, content.recs, div,
            Take(IF Len(div) < n_recommendations
                 THEN TopUp(div, df, n_recommendations)
                 ELSE div,
                 n_recommendations),
            FALSE)

\* The diversity filter on what the content scorer returned.
Diversify(profile, df, content, n_recommendations) ==
    IF content.error
    THEN Raised(df, profile, content.scoring)
    ELSE Blend(profile, df, content, diversify_recommendations(content.recs),
               n_recommendations)

\* The content scorer, the diversity filter, the top-up and the cut to n, for
\* an active user, from the feature matrix on.
ContentPath(profile, df, combined_features, n_recommendations) ==
    Diversify(profile, df,
              get_content_based_recommendations(profile, df, combined_features,
                                                n_recommendations * 2),
              n_recommendations)

\* The content path on the features, when building them did not raise.
OnFeatures(profile, df, features, n_recommendations) ==
    IF features.error
    THEN Raised(df, profile, NoScoring)
    ELSE ContentPath(profile, df, features.matrix, n_recommendations)

\* From the profile on, with nothing running in between: the content path of
\* an active user, the popularity list of any other.
Generate(profile, df, n_recommendations) ==
    IF Active(profile)
    THEN OnFeatures(profile, df, create_enhanced_features(df), n_recommendations)
    ELSE Outcome(df, profile, NoScoring, <<>>, <<>>,
                 Take(get_popularity_based_recommendations(df, n_recommendations),
                      n_recommendations),
                 FALSE)

\* books_df: the DataFrame of the books fetched, without the book of
\* current_book_id when that is given.
BooksFrame(books_data, current_book_id) ==
    IF Truthy(current_book_id)
    THEN WithoutId(DataFrame(books_data), IntOf(current_book_id))
    ELSE DataFrame(books_data)

\* The call with nothing running in between.  fail names the repository fetch
\* that raises ("none": neither does).  Every exception raised inside the try
\* block returns an empty list with an error.
get_recommendations(books_data, user_activity, fail, current_book_id, n_recommendations) ==
    IF fail = "books"
    THEN Raised(<<>>, NoProfile, NoScoring)
    ELSE IF books_data = <<>>
    THEN Outcome(<<>>, NoProfile, NoScoring, <<>>, <<>>, <<>>, FALSE)
    ELSE IF Truthy(current_book_id) /\ IntRaises(current_book_id)
    THEN Raised(DataFrame(books_data), NoProfile, NoScoring)
    ELSE IF fail = "activity"
    THEN Raised(BooksFrame(books_data, current_book_id), NoProfile, NoScoring)
    ELSE Generate(calculate_user_profile(user_activity),
                  BooksFrame(books_data, current_book_id), n_recommendations)

(***************************************************************************)
(* The state before the requests                                           *)
(***************************************************************************)
NoRequest == [entry |-> "none", current_book_id |-> NoneId, n |-> 0]

NoStats == [n |-> 0, s |-> 0, q |-> 0]

\* No request has begun; the vectorizer and the scaler are not fitted.
RequestsIdle ==
    /\ pc = [t \in Requests |-> "idle"]
    /\ req = [t \in Requests |-> NoRequest]
    /\ books_df = [t \in Requests |-> <<>>]
    /\ user_profile = [t \in Requests |-> NoProfile]
    /\ t_X = [t \in Requests |-> <<>>]
    /\ t_tfidf = [t \in Requests |-> <<>>]
    /\ scoring = [t \in Requests |-> NoScoring]
    /\ content_recs = [t \in Requests |-> <<>>]
    /\ diversified = [t \in Requests |-> <<>>]
    /\ result = [t \in Requests |-> [recommendations |-> <<>>, error |-> FALSE]]
    /\ tfidf = [fitted |-> FALSE, idf |-> <<>>]
    /\ scaler = [fitted |-> FALSE, stats |-> <<NoStats, NoStats>>]

\* The rows of the likes table of a user whose action on the book at position
\* p is act[p], in the table's order.
LikesRows(act) ==
    LET ps == SelectSeq([p \in 1..Len(act) |-> p], LAMBDA p : act[p] # "none")
    IN AsSeq([k \in 1..Len(ps) |-> [id |-> IdAt(ps[k]), action |-> act[ps[k]]]])

\* The books table with the given authors: every book has the same likes and
\* rating, so the books differ in their authors only.
AuthorCatalog(a) ==
    AsSeq([p \in 1..Len(a) |-> [id |-> IdAt(p), author |-> a[p], likes |-> 1, avg_rating |-> 4]])

\* A catalog of at most MaxBooks books, the first one by the first author; a
\* user with at most MaxLiked likes and at most one dislike, or with no like
\* and one review; any repository fetch may fail.
Init ==
    /\ \E N \in 0..MaxBooks :
          \E a \in [1..N -> Range(AuthorOrder)] :
              /\ \A p \in 1..Min(1, N) : a[p] = AuthorOrder[1]
              /\ books = AuthorCatalog(AsSeq(a))
    /\ \E act \in [1..Len(books) -> {"none", "like", "dislike"}] :
          /\ Cardinality({p \in 1..Len(books) : act[p] = "like"}) <= MaxLiked
          /\ Cardinality({p \in 1..Len(books) : act[p] = "dislike"}) <= 1
          /\ likes_data = LikesRows(act)
    /\ reviews_data \in {<<>>} \cup {<<[id |-> IdAt(1), rating |-> 5]>> :
                                      x \in 1..(IF \A r \in Range(likes_data) : r.action # "like"
                                                THEN Min(1, Len(books)) ELSE 0)}
    /\ repo_fail \in {"none", "books", "activity"}
    /\ RequestsIdle
    /\ div_pc = "idle" /\ div_in = <<>> /\ div_out = <<>>

(***************************************************************************)
(* The steps of a request                                                  *)
(***************************************************************************)
TablesVars == <<books, likes_data, reviews_data, repo_fail>>

DiversifyVars == <<div_pc, div_in, div_out>>

StagesVars == <<scoring, content_recs, diversified, result>>

\* return, from the try block or from the except clause.
Return(t, o) ==
    /\ pc' = [pc EXCEPT ![t] = "done"]
    /\ books_df' = [books_df EXCEPT ![t] = o.books_df]
    /\ user_profile' = [user_profile EXCEPT ![t] = o.user_profile]
    /\ scoring' = [scoring EXCEPT ![t] = o.scoring]
    /\ content_recs' = [content_recs EXCEPT ![t] = o.content_recs]
    /\ diversified' = [diversified EXCEPT ![t] = o.diversified]
    /\ result' = [result EXCEPT ![t] = o.result]

\* The call, up to the DataFrame of the books fetched: fetch_books_enhanced,
\* the empty test, pd.DataFrame and the filter on current_book_id.
Begin(t, entry, current_book_id, n) ==
    /\ pc[t] = "idle"
    /\ req' = [req EXCEPT ![t] = [entry |-> entry, current_book_id |-> current_book_id,
                                  n |-> n]]
    /\ IF repo_fail = "books"
       THEN Return(t, Raised(<<>>, NoProfile, NoScoring))
       ELSE IF books = <<>>
       THEN Return(t, Outcome(<<>>, NoProfile, NoScoring, <<>>, <<>>, <<>>, FALSE))
       ELSE IF Truthy(current_book_id) /\ IntRaises(current_book_id)
       THEN Return(t, Raised(DataFrame(books), NoProfile, NoScoring))
       ELSE /\ books_df' = [books_df EXCEPT ![t] = BooksFrame(books, current_book_id)]
            /\ pc' = [pc EXCEPT ![t] = "fetch_activity"]
            /\ UNCHANGED <<user_profile, StagesVars>>
    /\ UNCHANGED <<TablesVars, DiversifyVars, tfidf, scaler, t_X, t_tfidf>>

\* The ids a request may name: those of the first two books of the table.
RequestIds == {IdAt(1), IdAt(2)}

\* GET /recommendations: current_book_id is None or a str, of digits or not;
\* the count is the default.
recommendations(t) ==
    \E current_book_id \in {NoneId, NotAnInt} \cup {StrId(k) : k \in RequestIds} :
        Begin(t, "route", current_book_id, DefaultCount)

\* python recommend.py --user_id U --current_book_id K: an int or None.  The
\* run is a process of its own, with its own rec_system.
main(t) ==
    \E current_book_id \in {NoneId} \cup {IntId(k) : k \in RequestIds} :
        Begin(t, "cli", current_book_id, DefaultCount)

\* rec_system.get_recommendations(user_id, None, n) with a count, 0 too.
call(t) ==
    \E n \in 0..MaxCount : Begin(t, "call", NoneId, n)

\* fetch_user_comprehensive_activity and calculate_user_profile.  An active
\* user of the server goes on to the shared vectorizer; any other request
\* runs to its end with nothing in between.
fetch_user_comprehensive_activity(t) ==
    /\ pc[t] = "fetch_activity"
    /\ IF repo_fail = "activity"
       THEN Return(t, Raised(books_df[t], NoProfile, NoScoring))
       ELSE \E profile \in {calculate_user_profile(<<likes_data, reviews_data, <<>>>>)} :
               IF Active(profile) /\ req[t].entry # "cli"
               THEN /\ user_profile' = [user_profile EXCEPT ![t] = profile]
                    /\ pc' = [pc EXCEPT ![t] = "fit_tfidf"]
                    /\ UNCHANGED <<books_df, StagesVars>>
               ELSE \E o \in {Generate(profile, books_df[t], req[t].n)} : Return(t, o)
    /\ UNCHANGED <<TablesVars, DiversifyVars, tfidf, scaler, req, t_X, t_tfidf>>

\* self.tfidf.fit_transform, the fit: the vocabulary and the counts of the
\* request's documents, and the idf of the shared vectorizer set from them.
fit_tfidf(t) ==
    /\ pc[t] = "fit_tfidf"
    /\ IF TfidfRaises(books_df[t])
       THEN /\ Return(t, Raised(books_df[t], user_profile[t], NoScoring))
            /\ UNCHANGED <<t_X, tfidf>>
       ELSE /\ t_X' = [t_X EXCEPT ![t] = CountMatrix(books_df[t])]
            /\ tfidf' = [fitted |-> TRUE, idf |-> IdfOf(books_df[t])]
            /\ pc' = [pc EXCEPT ![t] = "transform_tfidf"]
            /\ UNCHANGED <<books_df, user_profile, StagesVars>>
    /\ UNCHANGED <<TablesVars, DiversifyVars, scaler, req, t_tfidf>>

\* self.tfidf.fit_transform, the transform: the counts of the request under
\* the idf the shared vectorizer holds now.
transform_tfidf(t) ==
    /\ pc[t] = "transform_tfidf"
    /\ \E T \in {TfidfTransform(t_X[t], tfidf.idf)} :
          IF T.error
          THEN /\ Return(t, Raised(books_df[t], user_profile[t], NoScoring))
               /\ UNCHANGED t_tfidf
          ELSE /\ t_tfidf' = [t_tfidf EXCEPT ![t] = T.matrix]
               /\ pc' = [pc EXCEPT ![t] = "fit_scaler"]
               /\ UNCHANGED <<books_df, user_profile, StagesVars>>
    /\ UNCHANGED <<TablesVars, DiversifyVars, tfidf, scaler, req, t_X>>

\* self.scaler.fit_transform, the fit: mean_ and scale_ of the shared scaler
\* set from the request's likes and ratings.
fit_scaler(t) ==
    /\ pc[t] = "fit_scaler"
    /\ scaler' = [fitted |-> TRUE, stats |-> ScalerFit(NumericalFeatures(books_df[t]))]
    /\ pc' = [pc EXCEPT ![t] = "transform_scaler"]
    /\ UNCHANGED <<TablesVars, DiversifyVars, tfidf, req, books_df, user_profile,
                   t_X, t_tfidf, StagesVars>>

\* self.scaler.fit_transform, the transform: the request's likes and ratings
\* under the mean_ and scale_ the shared scaler holds now; then np.hstack,
\* and the request runs to its end on the matrix.
transform_scaler(t) ==
    /\ pc[t] = "transform_scaler"
    /\ \E combined_features \in
            {HStack(t_tfidf[t],
                    ScalerTransform(NumericalFeatures(books_df[t]), scaler.stats))} :
          \E o \in {ContentPath(user_profile[t], books_df[t], combined_features, req[t].n)} :
              Return(t, o)
    /\ UNCHANGED <<TablesVars, DiversifyVars, tfidf, scaler, req, t_X, t_tfidf>>

Next ==
    \E t \in Requests :
        \/ recommendations(t) \/ main(t) \/ call(t)
        \/ fetch_user_comprehensive_activity(t)
        \/ fit_tfidf(t) \/ transform_tfidf(t)
        \/ fit_scaler(t) \/ transform_scaler(t)

Spec == Init /\ [][Next]_vars

(***************************************************************************)
(* Cold start: users with no activity, catalogs that differ in popularity  *)
(***************************************************************************)
\* The <<likes, avg_rating>> a book of these catalogs may have: the scores 0,
\* 0.8, 2.8 and 2.8000000000000003 (1*0.4 + 4*0.6 and 7*0.4), so that more
\* likes is not a higher score, a rating without likes counts for nothing,
\* and two scores differ only by the rounding of the doubles.
PopKinds == {<<0, 5>>, <<2, 0>>, <<1, 4>>, <<7, 0>>}

PopCatalog(k) ==
    AsSeq([p \in 1..Len(k) |->
              [id |-> IdAt(p), author |-> "a", likes |-> k[p][1], avg_rating |-> k[p][2]]])

InitCold ==
    /\ \E N \in 0..MaxBooks :
          \E k \in [1..N -> PopKinds] : books = PopCatalog(AsSeq(k))
    /\ likes_data = <<>>
    /\ reviews_data = <<>>
    /\ repo_fail \in {"none", "books", "activity"}
    /\ RequestsIdle
    /\ div_pc = "idle" /\ div_in = <<>> /\ div_out = <<>>

\* A request of a user with no activity ends at the profile.
NextCold ==
    \E t \in Requests :
        \/ recommendations(t) \/ main(t) \/ call(t)
        \/ fetch_user_comprehensive_activity(t)

SpecCold == InitCold /\ [][NextCold]_vars

(***************************************************************************)
(* The diversity filter alone, on every ranked list                        *)
(***************************************************************************)
\* A recommendation of the list: its author is "a", "b" or "Unknown", or (for
\* "") the record has no author key.
RankedItem(k, a) == IF a = "" THEN [id |-> k] ELSE [id |-> k, author |-> a]

\* Every ranked list of at most MaxRecs recommendations.
InitDiversify ==
    /\ \E N \in 0..MaxRecs :
          \E a \in [1..N -> {"a", "b", "Unknown", ""}] :
              div_in = AsSeq([k \in 1..N |-> RankedItem(k, a[k])])
    /\ div_pc = "idle"
    /\ div_out = <<>>
    /\ books = <<>> /\ likes_data = <<>> /\ reviews_data = <<>> /\ repo_fail = "none"
    /\ RequestsIdle

\* rec_system.diversify_recommendations(recommendations)
diversify ==
    /\ div_pc = "idle"
    /\ div_out' = diversify_recommendations(div_in)
    /\ div_pc' = "done"
    /\ UNCHANGED <<TablesVars, tfidf, scaler, pc, req, books_df, user_profile,
                   t_X, t_tfidf, StagesVars, div_in>>

SpecDiversify == InitDiversify /\ [][diversify]_vars

(***************************************************************************)
(* What the claims speak of                                                *)
(***************************************************************************)
Returned(t) == result[t].recommendations

LikedIds == {r.id : r \in {x \in Range(likes_data) : x.action = "like"}}

DislikedIds == {r.id : r \in {x \in Range(likes_data) : x.action # "like"}}

NoActivity == likes_data = <<>> /\ reviews_data = <<>>

\* The request has returned and no repository fetch fails.
Fetched(t) == pc[t] = "done" /\ repo_fail = "none"

Ids(recs) == {recs[i].id : i \in 1..Len(recs)}

DistinctIds(recs) == \A i, j \in 1..Len(recs) : recs[i].id = recs[j].id => i = j

\* The positions in the request's books_df of the books whose ids are given.
PositionsOf(t, ids) == {i \in 1..Len(books_df[t]) : books_df[t][i].id \in ids}

\* The request has returned and it called the content scorer.
ScorerCalled(t) == pc[t] = "done" /\ scoring[t].called

\* The sum over the rows of the given positions of their similarity to j: the
\* affinity of j to these books is this sum over their number.
RECURSIVE AffinitySum(_, _, _)
AffinitySum(sim, positions, j) ==
    IF positions = {} THEN 0
    ELSE LET i == CHOOSE x \in positions : TRUE
         IN sim[i][j] + AffinitySum(sim, positions \ {i}, j)

\* The final score of the book at position j, as numerator and denominator:
\* liked-affinity - 0.3 * disliked-affinity, or the liked-affinity alone.
\* sim holds the similarities times SimScale.
TrueScore(sim, L, D, j) ==
    IF D # {}
    THEN <<10 * Cardinality(D) * AffinitySum(sim, L, j)
             - 3 * Cardinality(L) * AffinitySum(sim, D, j),
           10 * Cardinality(L) * Cardinality(D) * SimScale>>
    ELSE <<AffinitySum(sim, L, j), Cardinality(L) * SimScale>>

\* The final scores of the books of the request's books_df, from the feature
\* matrix of that books_df.
TrueScores(t) ==
    LET sim == cosine_similarity(create_enhanced_features(books_df[t]).matrix)
        L == PositionsOf(t, LikedIds)
        D == PositionsOf(t, DislikedIds)
    IN AsSeq([j \in 1..Len(books_df[t]) |-> TrueScore(sim, L, D, j)])

\* Equality and order of two fractions whose denominators are positive
\* multiples of SimScale.
SameFraction(x, y) == x[1] * (y[2] \div SimScale) = y[1] * (x[2] \div SimScale)

LessFraction(x, y) == x[1] * (y[2] \div SimScale) < y[1] * (x[2] \div SimScale)

(***************************************************************************)
(* C1: no item whose id is in the user's liked or disliked set is in the   *)
(* list get_recommendations returns.                                       *)
(***************************************************************************)
C1_NoInteractedReturned ==
    \A t \in Requests :
        pc[t] = "done"
        => \A i \in 1..Len(Returned(t)) : Returned(t)[i].id \notin LikedIds \cup DislikedIds

(***************************************************************************)
(* C2: for a user with no like, dislike or rating the returned list is the *)
(* popularity ranking of the catalog cut to count: the count books of the  *)
(* highest popularityScore = likes*0.4 + avgRating*likes*0.6, highest      *)
(* first, books of equal score in catalog order.                           *)
(***************************************************************************)
\* likes*0.4 + avgRating*likes*0.6 of a book, times 5.
StatedPopularity(row) == row.likes * 2 + row.avg_rating * row.likes * 3

\* The book at position i of df ranks before the one at position j.
RanksBefore(df, i, j) ==
    \/ StatedPopularity(df[i]) > StatedPopularity(df[j])
    \/ StatedPopularity(df[i]) = StatedPopularity(df[j]) /\ i < j

C2_ColdStartIsPopularityRanking ==
    \A t \in Requests :
        (Fetched(t) /\ NoActivity)
        => /\ req[t].current_book_id.kind = "none" => Ids(books_df[t]) = Ids(books)
           /\ Len(Returned(t)) = Min(req[t].n, Len(books_df[t]))
           /\ \A k \in 1..Len(Returned(t)) :
                 \E i \in 1..Len(books_df[t]) :
                    /\ books_df[t][i].id = Returned(t)[k].id
                    \* the books ranked before it are exactly those returned before it
                    /\ {books_df[t][j].id :
                           j \in {x \in 1..Len(books_df[t]) : RanksBefore(books_df[t], x, i)}}
                          = {Returned(t)[l].id : l \in 1..(k - 1)}

(***************************************************************************)
(* C3, as stated: the list diversify_recommendations returns, of length L, *)
(* holds no author more than max(1, floor(L * 0.3)) times, for input lists *)
(* of 3 items or fewer too.                                                *)
(***************************************************************************)
TimesIn(recs, author) == Cardinality({i \in 1..Len(recs) : AuthorOf(recs[i]) = author})

C3_CapOverReturnedLength ==
    div_pc = "done"
    => \A i \in 1..Len(div_out) :
          TimesIn(div_out, AuthorOf(div_out[i])) <= Max(1, (Len(div_out) * 3) \div 10)

(***************************************************************************)
(* C3, amended: an input list of more than 3 items comes back holding no   *)
(* author more than max(1, floor(n * 0.3)) times, n the length of the      *)
(* INPUT list; an input list of 3 items or fewer comes back unchanged.     *)
(***************************************************************************)
C3_CapOverInputLength ==
    div_pc = "done"
    => IF Len(div_in) <= 3
       THEN div_out = div_in
       ELSE \A i \in 1..Len(div_out) :
               TimesIn(div_out, AuthorOf(div_out[i])) <= Max(1, (Len(div_in) * 3) \div 10)

\* A list of more than 3 items was filtered: a book was dropped and an author
\* still fills its cap of 2.
C3_Witness ==
    /\ div_pc = "done"
    /\ Len(div_in) > 3
    /\ Len(div_out) < Len(div_in)
    /\ \E i \in 1..Len(div_out) : TimesIn(div_out, AuthorOf(div_out[i])) = 2

(***************************************************************************)
(* C4: when the diversified content-based list has m < count items and the *)
(* catalog holds at least count - m items that are not in it, the returned *)
(* list is that list followed by exactly count - m popularity items, count *)
(* items of pairwise distinct ids in all.                                  *)
(***************************************************************************)
C4_TopUpFillsToCount ==
    \A t \in Requests :
        LET m == Len(diversified[t])
        IN (/\ ScorerCalled(t) /\ ~result[t].error
            /\ m < req[t].n
            /\ Cardinality({i \in 1..Len(books_df[t]) :
                               books_df[t][i].id \notin Ids(diversified[t])})
                 >= req[t].n - m)
           => /\ Len(Returned(t)) = req[t].n
              /\ SubSeq(Returned(t), 1, m) = diversified[t]
              /\ DistinctIds(Returned(t))

(***************************************************************************)
(* C5: get_recommendations returns an error only when a repository fetch   *)
(* failed; when both fetches succeed it returns a list with no error.      *)
(***************************************************************************)
C5_ErrorOnlyOnRepositoryFailure ==
    \A t \in Requests :
        pc[t] = "done" => (result[t].error => repo_fail # "none")

(***************************************************************************)
(* C7: in the content scorer the final score of every item of the catalog  *)
(* passed to it is its mean similarity to exactly the rows of the liked    *)
(* items the catalog holds, minus 0.3 times the same mean over the         *)
(* disliked items' rows when there are any.                                *)
(***************************************************************************)
C7_AffinityOverLikedRows ==
    \A t \in Requests :
        (ScorerCalled(t) /\ PositionsOf(t, LikedIds) # {})
        => /\ scoring[t].scored
           /\ \A true \in {TrueScores(t)} :
                 \A j \in 1..Len(books_df[t]) :
                     SameFraction(<<scoring[t].final_scores[j], scoring[t].den>>, true[j])

(***************************************************************************)
(* C8: with a non-empty liked set the content scorer returns the first     *)
(* 2 * count items of the catalog that are neither liked nor disliked, in  *)
(* descending order of final score, equal scores in catalog order, each    *)
(* carrying its final score.                                               *)
(***************************************************************************)
C8_TopKByFinalScore ==
    \A t \in Requests :
        (ScorerCalled(t) /\ LikedIds # {})
        => LET df == books_df[t]
               recs == content_recs[t]
               candidates == {i \in 1..Len(df) : df[i].id \notin LikedIds \cup DislikedIds}
               pos(rec) == CHOOSE i \in 1..Len(df) : df[i].id = rec.id
           IN /\ Len(recs) = Min(2 * req[t].n, Cardinality(candidates))
              /\ \A k \in 1..Len(recs) : pos(recs[k]) \in candidates
              /\ PositionsOf(t, LikedIds) # {}
                 => \A true \in {TrueScores(t)} :
                       LET \* i is ranked before j
                           Before(i, j) == \/ LessFraction(true[j], true[i])
                                           \/ SameFraction(true[i], true[j]) /\ i < j
                       IN /\ \A k \in 1..Len(recs) :
                                SameFraction(recs[k].similarity_score, true[pos(recs[k])])
                          /\ \A k, l \in 1..Len(recs) :
                                k < l => Before(pos(recs[k]), pos(recs[l]))
                          /\ \A k \in 1..Len(recs) :
                                \A i \in candidates \ {pos(recs[l]) : l \in 1..Len(recs)} :
                                    Before(pos(recs[k]), i)

(***************************************************************************)
(* C9: calculate_user_profile returns no profile (None) when the fetched   *)
(* activity holds no like, no dislike and no rating.                       *)
(***************************************************************************)
C9_NoActivityNoProfile ==
    \A t \in Requests :
        (Fetched(t) /\ books # <<>> /\ NoActivity) => ~user_profile[t].present

(***************************************************************************)
(* C10: when a current book id is given, whatever its value (0 too) and    *)
(* whatever the path, the book of that id is not in the returned list.     *)
(***************************************************************************)
C10_CurrentBookExcluded ==
    \A t \in Requests :
        (pc[t] = "done" /\ req[t].current_book_id.kind \in {"int", "str"})
        => \A i \in 1..Len(Returned(t)) : Returned(t)[i].id # req[t].current_book_id.v

(***************************************************************************)
(* C6: two requests running at once on the one recommender share no        *)
(* mutable state: under every interleaving of their steps each request     *)
(* gets what it gets when it runs alone.                                   *)
(***************************************************************************)
C6_ConcurrentAsAlone ==
    \A t \in Requests :
        pc[t] = "done"
        => result[t] = get_recommendations(books, <<likes_data, reviews_data, <<>>>>,
                                           repo_fail, req[t].current_book_id,
                                           req[t].n).result

====
